---------------------------- MODULE Spec2Model ----------------------------
(***************************************************************************)
(* A model of nsxfint.py: one run of the program, from the check of the    *)
(* input path to the written CSV.  The run is a single sequential process; *)
(* pc is its position in main().  A table (a pandas DataFrame) is a record *)
(* [columns, dtype, rows]: the ordered column names, each column's dtype   *)
(* and one function (column name -> value) per row; the report table, as   *)
(* read, carries no dtypes.                                                *)
(***************************************************************************)
EXTENDS Integers, Sequences, FiniteSets, TLC

VARIABLES
    args,        \* the parsed command line (the global `args`)
    file,        \* the physical lines of the input report
    catalogCsv,  \* the data rows of nsx_features.csv
    pc,          \* position in main()
    stdout,      \* the lines printed by log()
    exitCode,    \* -1 while running, then the process's exit status
    skipped,     \* the list skip_rows() returned
    vmh_df,      \* the report table
    nsxf_df,     \* the catalog after dropna()
    nsxfint_df,  \* the table under construction
    i,           \* 1-based index of the catalog row the loop is at
    outFile      \* the file at args.output

vars == <<args, file, catalogCsv, pc, stdout, exitCode, skipped, vmh_df,
          nsxf_df, nsxfint_df, i, outFile>>

---------------------------------------------------------------------------
(* Bounds of the model. *)

\* usage masks range over 0..MaxMask
MaxMask == 3
\* the catalog file has at most MaxCatalog data rows
MaxCatalog == 2
\* the report file has at most MaxLines physical lines
MaxLines == 3

---------------------------------------------------------------------------
(* Helpers. *)

Range(s) == {s[k] : k \in DOMAIN s}

NoDuplicates(s) == \A a, b \in DOMAIN s : a # b => s[a] # s[b]

RECURSIVE TrueIdx(_, _)
\* the indices k >= from, in order, at which the sequence of booleans is TRUE
TrueIdx(flags, from) ==
    IF from > Len(flags) THEN <<>>
    ELSE (IF flags[from] THEN <<from>> ELSE <<>>) \o TrueIdx(flags, from + 1)

RECURSIVE Dedupe(_)
\* s with every repetition of an earlier element removed
Dedupe(s) ==
    IF s = <<>> THEN <<>>
    ELSE LET front == Dedupe(SubSeq(s, 1, Len(s) - 1))
             last  == s[Len(s)]
         IN  IF last \in Range(front) THEN front ELSE Append(front, last)

SetMax(S) == CHOOSE m \in S : \A x \in S : x <= m

RECURSIVE BitAnd(_, _)
\* a & b on non-negative integers
BitAnd(a, b) ==
    IF a = 0 \/ b = 0 THEN 0
    ELSE (a % 2) * (b % 2) + 2 * BitAnd(a \div 2, b \div 2)

\* the decimal text of a one-digit number, and the number a cell's text denotes
Digits == <<"0", "1", "2", "3", "4", "5", "6", "7", "8", "9">>
ToStr(n) == Digits[n + 1]
IsIntText(s) == \E n \in 0..9 : Digits[n + 1] = s
ParseInt(s) == CHOOSE n \in 0..9 : Digits[n + 1] = s

---------------------------------------------------------------------------
(* Command line and logging. *)

\* a faulty RecognizedSuffixes that lets .txt through
RecognizedSuffixesTxt == {".csv", ".tsv", ".txt"}
\* main(): the suffixes the input check lets through
RecognizedSuffixes == {".csv", ".tsv"}

\* log(): the tag a message is printed under
LogTag(debug, verbose, fatal) ==
    IF debug /\ args.debug THEN "DEBUG"
    ELSE IF verbose /\ args.verbose THEN "VERBOSE"
    ELSE IF fatal THEN "FATAL"
    ELSE "INFO"

\* log(): out with the printed line appended.  level is the keyword the
\* caller passed (debug=True, verbose=True, fatal=True), text the message
\* without the path and path the path the message names ("" when none).
Log(out, level, text, path) ==
    Append(out, [tag   |-> LogTag(level = "debug", level = "verbose", level = "fatal"),
                 level |-> level,
                 text  |-> text,
                 path  |-> path])

---------------------------------------------------------------------------
(* The report file.  A physical line is a record [sep, cells]: its text is *)
(* the cells joined by sep.  No cell holds a tab or a comma.               *)

\* the number of occurrences of delimiter d in the line
DelimCount(line, d) == IF line.sep = d THEN Len(line.cells) - 1 ELSE 0

\* len(line.split("\t"))
TabFieldCount(line) == DelimCount(line, "\t") + 1

\* skip_rows(): the test a line is skipped by
SkipTest(line) == TabFieldCount(line) = 1

\* skip_rows(): the 0-based indices of the lines to skip
SkipRows(lines) ==
    LET idx == TrueIdx([k \in DOMAIN lines |-> SkipTest(lines[k])], 1)
    IN  [k \in DOMAIN idx |-> idx[k] - 1]

\* the lines pd.read_csv(sep="\t", skiprows=skip) parses, in order
KeptLines(lines, skip) ==
    LET idx == TrueIdx([k \in DOMAIN lines |-> (k - 1) \notin Range(skip)], 1)
    IN  [k \in DOMAIN idx |-> lines[idx[k]]]

\* vmh_df.rename(columns={"#Name": "Name"})
Rename(name) == IF name = "#Name" THEN "Name" ELSE name

\* pd.read_csv(sep="\t") on the kept lines, then the rename: the first kept
\* line is the header, every later one a row
ReadReport(kept) ==
    LET header == [k \in DOMAIN kept[1].cells |-> Rename(kept[1].cells[k])]
    IN  [columns |-> header,
         rows    |-> [r \in 1..(Len(kept) - 1) |->
                        [c \in Range(header) |->
                            LET k == CHOOSE k \in DOMAIN header : header[k] = c
                            IN  kept[r + 1].cells[k]]]]

\* a faulty NormalizeMask that leaves the placeholder "-" non-zero
NormalizeMaskDash(cell) ==
    IF cell = "" THEN 0 ELSE IF cell = "-" THEN 1 ELSE ParseInt(cell)
\* .fillna(0).replace("-", 0).astype(int) on one cell of the NsxFInt column
NormalizeMask(cell) ==
    IF cell = "" THEN 0 ELSE IF cell = "-" THEN 0 ELSE ParseInt(cell)

---------------------------------------------------------------------------
(* The catalog.  A data row of nsx_features.csv is a record [name, bit,    *)
(* edition]: the cells under "NSX Feature Name", "NSXFINT" and "Edition".  *)
(* An empty text cell is read as a missing value.                          *)

\* main(): the ordered edition list
editions == <<"", "Base", "Professional", "Advanced", "Enterprise Plus">>

\* a row dropna() keeps: none of its cells is missing
Complete(row) == row.name # "" /\ row.edition # ""

\* pd.read_csv("nsx_features.csv").dropna()
ReadCatalog(csv) == SelectSeq(csv, Complete)

\* nsxf_df["NSX Feature Name"]
FeatureNames(catalog) == [k \in DOMAIN catalog |-> catalog[k].name]

\* editions.index(e), 0-based; e is in the list
EditionIndex(e) ==
    (CHOOSE k \in DOMAIN editions :
        editions[k] = e /\ \A j \in 1..(k - 1) : editions[j] # e) - 1

\* a faulty Active that asks for every bit of the feature
ActiveAllBits(mask, bit) == BitAnd(mask, bit) = bit
\* (nsxfint_df["NsxFInt"] & row["NSXFINT"]) > 0
Active(mask, bit) == BitAnd(mask, bit) > 0

\* np.where(active, editions.index(row["Edition"]), 0) for one VM
FeatureRank(mask, row) ==
    IF Active(mask, row.bit) THEN EditionIndex(row.edition) ELSE 0

---------------------------------------------------------------------------
(* Table operations. *)

\* df[name] = vals, with the column's new dtype: an existing column is
\* overwritten in place, a new one is appended
SetColumn(df, name, dt, vals) ==
    [columns |-> IF name \in Range(df.columns) THEN df.columns
                 ELSE Append(df.columns, name),
     dtype   |-> (name :> dt) @@ df.dtype,
     rows    |-> [r \in DOMAIN df.rows |-> (name :> vals[r]) @@ df.rows[r]]]

\* whether a cell of the NsxFInt column survives .astype(int)
MaskCellOk(cell) == cell \in {"", "-"} \/ IsIntText(cell)

\* vmh_df["NsxFInt"] = vmh_df["NsxFInt"].fillna(0).replace("-", 0).astype(int)
NormalizeColumn(df) ==
    [columns |-> df.columns,
     rows    |-> [r \in DOMAIN df.rows |->
                    [c \in DOMAIN df.rows[r] |->
                        IF c = "NsxFInt" THEN NormalizeMask(df.rows[r][c])
                        ELSE df.rows[r][c]]]]

\* nsxfint_df = vmh_df[["Name", "NsxFInt"]], on the normalised report
SelectNameAndMask(df) ==
    [columns |-> <<"Name", "NsxFInt">>,
     dtype   |-> [c \in {"Name", "NsxFInt"} |->
                    IF c = "Name" THEN "object" ELSE "int64"],
     rows    |-> [r \in DOMAIN df.rows |->
                    [c \in {"Name", "NsxFInt"} |-> df.rows[r][c]]]]

\* one pass of the loop: nsxfint_df[row["NSX Feature Name"]] = np.where(...)
AddFeatureColumn(df, row) ==
    SetColumn(df, row.name, "int64",
              [r \in DOMAIN df.rows |-> FeatureRank(df.rows[r]["NsxFInt"], row)])

\* a faulty RowMax: the last feature processed wins
RowMaxLast(vals) == vals[Len(vals)]
\* a faulty RowMax: the first feature processed wins
RowMaxFirst(vals) == vals[1]
\* .max(axis=1) for one row: vals are the row's values in the selected
\* columns, one per catalog row
RowMax(vals) == SetMax(Range(vals))

\* the value of a row-wise reduction over no columns
NaN == "nan"

\* nsxfint_df["NSX Edition"] = nsxfint_df[names].max(axis=1)
ResolveEdition(df, names) ==
    IF names = <<>>
    THEN SetColumn(df, "NSX Edition", "float64", [r \in DOMAIN df.rows |-> NaN])
    ELSE SetColumn(df, "NSX Edition", "int64",
                   [r \in DOMAIN df.rows |->
                       RowMax([k \in DOMAIN names |-> df.rows[r][names[k]]])])

\* np.where(x > 0, True, ""): the array holds text
Marker(x) == IF x > 0 THEN "True" ELSE ""

\* nsxfint_df[names] = np.where(nsxfint_df[names] > 0, True, "")
ShapeOutput(df, names) ==
    [columns |-> df.columns,
     dtype   |-> [c \in DOMAIN df.dtype |->
                    IF c \in Range(names) THEN "str" ELSE df.dtype[c]],
     rows    |-> [r \in DOMAIN df.rows |->
                    [c \in DOMAIN df.rows[r] |->
                        IF c \in Range(names) THEN Marker(df.rows[r][c])
                        ELSE df.rows[r][c]]]]

\* whether .apply(lambda x: editions[x]) raises: a float or a text is no
\* list index; with no row the lambda is never called
NameEditionRaises(df) ==
    df.rows # <<>> /\ df.dtype["NSX Edition"] # "int64"

\* nsxfint_df["NSX Edition"].apply(lambda x: editions[x])
NameEdition(df) ==
    IF df.rows = <<>> THEN df
    ELSE SetColumn(df, "NSX Edition", "object",
                   [r \in DOMAIN df.rows |-> editions[df.rows[r]["NSX Edition"] + 1]])

\* to_csv's text of one cell
CsvCell(v, dt) == IF dt = "int64" THEN ToStr(v) ELSE v

\* a faulty ToCsv that writes the rows last to first
ToCsvReversed(df) ==
    [exists  |-> TRUE,
     written |-> TRUE,
     columns |-> df.columns,
     rows    |-> [r \in DOMAIN df.rows |->
                    [c \in DOMAIN df.rows[r] |->
                        CsvCell(df.rows[Len(df.rows) + 1 - r][c], df.dtype[c])]]]
\* nsxfint_df.to_csv(args.output, index=False): the file's header and rows
ToCsv(df) ==
    [exists  |-> TRUE,
     written |-> TRUE,
     columns |-> df.columns,
     rows    |-> [r \in DOMAIN df.rows |->
                    [c \in DOMAIN df.rows[r] |-> CsvCell(df.rows[r][c], df.dtype[c])]]]

RECURSIVE AddFeatureColumns(_, _, _)
\* the whole loop over the catalog, from row k on
AddFeatureColumns(df, catalog, k) ==
    IF k > Len(catalog) THEN df
    ELSE AddFeatureColumns(AddFeatureColumn(df, catalog[k]), catalog, k + 1)

\* lines 100-116 on a normalised report table and a catalog on which
\* nothing raises
Resolve(report, catalog) ==
    LET names == FeatureNames(catalog)
    IN  NameEdition(ShapeOutput(ResolveEdition(
            AddFeatureColumns(SelectNameAndMask(report), catalog, 1), names), names))
---------------------------------------------------------------------------
(* The run. *)

\* an uncaught exception: the interpreter prints a traceback to stderr and
\* exits with status 1; nothing is logged
Crash ==
    /\ pc' = "crashed"
    /\ exitCode' = 1

\* log(msg, fatal=True): the line, then exit(1)
Fatal(text) ==
    /\ stdout' = Log(stdout, "fatal", text, args.input)
    /\ pc' = "fatal"
    /\ exitCode' = 1

\* main(), lines 82-85
CheckInput ==
    /\ pc = "check"
    /\ \/ /\ ~args.exists
          /\ Fatal("Input file does not exist.")
       \/ /\ args.exists
          /\ args.suffix \notin RecognizedSuffixes
          /\ Fatal("Input file is not CSV or TSV.")
       \/ /\ args.exists
          /\ args.suffix \in RecognizedSuffixes
          /\ pc' = "read_report"
          /\ UNCHANGED <<stdout, exitCode>>
    /\ UNCHANGED <<args, file, catalogCsv, skipped, vmh_df, nsxf_df, nsxfint_df,
                   i, outFile>>

\* main(), lines 88-90, with skip_rows()
ReadReportStep ==
    /\ pc = "read_report"
    /\ stdout' = Log(Log(Log(stdout,
                     "verbose", "Reading input file...", args.input),
                     "debug", "Determining rows to skip...", ""),
                     "debug", "Rows to skip", "")
    /\ skipped' = SkipRows(file)
    /\ LET kept == KeptLines(file, skipped')
       IN  \/ /\ kept = <<>>       \* read_csv: no columns to parse
              /\ Crash
              /\ UNCHANGED vmh_df
           \/ /\ kept # <<>>
              /\ vmh_df' = ReadReport(kept)
              /\ pc' = "read_catalog"
              /\ UNCHANGED exitCode
    /\ UNCHANGED <<args, file, catalogCsv, nsxf_df, nsxfint_df, i, outFile>>

\* main(), lines 93-94
ReadCatalogStep ==
    /\ pc = "read_catalog"
    /\ stdout' = Log(stdout, "verbose", "Reading NSX Features...", "")
    /\ nsxf_df' = ReadCatalog(catalogCsv)
    /\ pc' = "normalize"
    /\ UNCHANGED <<args, file, catalogCsv, exitCode, skipped, vmh_df, nsxfint_df,
                   i, outFile>>

\* main(), lines 97-100
NormalizeStep ==
    /\ pc = "normalize"
    /\ \/ /\ \/ {"Name", "NsxFInt"} \ Range(vmh_df.columns) # {}    \* KeyError
             \/ /\ "NsxFInt" \in Range(vmh_df.columns)
                /\ \E r \in DOMAIN vmh_df.rows :
                      ~MaskCellOk(vmh_df.rows[r]["NsxFInt"])       \* ValueError
          /\ Crash
          /\ UNCHANGED <<vmh_df, nsxfint_df>>
       \/ /\ {"Name", "NsxFInt"} \subseteq Range(vmh_df.columns)
          /\ \A r \in DOMAIN vmh_df.rows : MaskCellOk(vmh_df.rows[r]["NsxFInt"])
          /\ vmh_df' = NormalizeColumn(vmh_df)
          /\ nsxfint_df' = SelectNameAndMask(vmh_df')
          /\ pc' = "features"
          /\ UNCHANGED exitCode
    /\ UNCHANGED <<args, file, catalogCsv, stdout, skipped, nsxf_df, i, outFile>>

\* main(), lines 104-109: one iteration of the loop
AddFeatureStep ==
    /\ pc = "features"
    /\ i <= Len(nsxf_df)
    /\ \/ /\ nsxf_df[i].edition \notin Range(editions)   \* editions.index: ValueError
          /\ Crash
          /\ UNCHANGED <<nsxfint_df, i>>
       \/ /\ nsxf_df[i].edition \in Range(editions)
          /\ nsxfint_df' = AddFeatureColumn(nsxfint_df, nsxf_df[i])
          /\ i' = i + 1
          /\ UNCHANGED <<pc, exitCode>>
    /\ UNCHANGED <<args, file, catalogCsv, stdout, skipped, vmh_df, nsxf_df, outFile>>

\* main(), line 112, once the loop is over
ResolveStep ==
    /\ pc = "features"
    /\ i > Len(nsxf_df)
    /\ nsxfint_df' = ResolveEdition(nsxfint_df, FeatureNames(nsxf_df))
    /\ pc' = "shape"
    /\ UNCHANGED <<args, file, catalogCsv, stdout, exitCode, skipped, vmh_df,
                   nsxf_df, i, outFile>>

\* main(), lines 113-115
ShapeStep ==
    /\ pc = "shape"
    /\ nsxfint_df' = ShapeOutput(nsxfint_df, FeatureNames(nsxf_df))
    /\ pc' = "name"
    /\ UNCHANGED <<args, file, catalogCsv, stdout, exitCode, skipped, vmh_df,
                   nsxf_df, i, outFile>>

\* main(), line 116
NameStep ==
    /\ pc = "name"
    /\ \/ /\ NameEditionRaises(nsxfint_df)               \* TypeError
          /\ Crash
          /\ UNCHANGED nsxfint_df
       \/ /\ ~NameEditionRaises(nsxfint_df)
          /\ nsxfint_df' = NameEdition(nsxfint_df)
          /\ pc' = "save"
          /\ UNCHANGED exitCode
    /\ UNCHANGED <<args, file, catalogCsv, stdout, skipped, vmh_df, nsxf_df, i,
                   outFile>>

\* main(), line 119, and the return to the interpreter
SaveStep ==
    /\ pc = "save"
    /\ outFile' = ToCsv(nsxfint_df)
    /\ pc' = "done"
    /\ exitCode' = 0
    /\ UNCHANGED <<args, file, catalogCsv, stdout, skipped, vmh_df, nsxf_df,
                   nsxfint_df, i>>

Next ==
    \/ CheckInput
    \/ ReadReportStep
    \/ ReadCatalogStep
    \/ NormalizeStep
    \/ AddFeatureStep
    \/ ResolveStep
    \/ ShapeStep
    \/ NameStep
    \/ SaveStep

---------------------------------------------------------------------------
(* The inputs of a run. *)

TabLine(cells) == [sep |-> "\t", cells |-> cells]
Line(sep, cells) == [sep |-> sep, cells |-> cells]

\* the text of the NsxFInt cell of a data row
MaskCells == {"", "-"} \cup {ToStr(n) : n \in 0..MaxMask}

\* data rows of the catalog file: the well-formed ones, then a bit
\* combination, rows with a missing cell, an unknown edition, and features
\* named like a column main() creates
CatalogRows ==
    [name : {"fa", "fb"}, bit : {1, 2},
     edition : {"Base", "Professional", "Advanced", "Enterprise Plus"}]
    \cup {[name |-> "fc", bit |-> 3, edition |-> "Professional"],
          [name |-> "",   bit |-> 1, edition |-> "Base"],
          [name |-> "fa", bit |-> 1, edition |-> ""],
          [name |-> "fa", bit |-> 1, edition |-> "Ultimate"],
          [name |-> "NsxFInt",     bit |-> 1, edition |-> "Base"],
          [name |-> "Name",        bit |-> 2, edition |-> "Advanced"],
          [name |-> "NSX Edition", bit |-> 1, edition |-> "Base"]}

Catalogs == UNION {[1..n -> CatalogRows] : n \in 0..MaxCatalog}

DefaultCatalog ==
    <<[name |-> "fa", bit |-> 1, edition |-> "Base"],
      [name |-> "fb", bit |-> 2, edition |-> "Enterprise Plus"]>>

\* the physical lines a report delimited by sep is made of: header lines,
\* a metadata line without delimiter, a data row whose mask is no integer,
\* data rows
ReportLines(sep) ==
    {Line(sep, <<"Name", "NsxFInt">>), Line(sep, <<"#Name", "NsxFInt">>),
     Line(sep, <<"Usage Meter report">>), Line(sep, <<"vm1", "x">>)}
    \cup {Line(sep, <<n, c>>) : n \in {"vm1", "vm2"}, c \in {"-", ToStr(MaxMask)}}

Reports(sep) == UNION {[1..n -> ReportLines(sep)] : n \in 0..MaxLines}

SepOf(suffix) == IF suffix = ".csv" THEN "," ELSE "\t"

NoFile == [exists |-> FALSE, written |-> FALSE, columns |-> <<>>, rows |-> <<>>]
OldFile == [exists |-> TRUE, written |-> FALSE, columns |-> <<>>, rows |-> <<>>]

Args(suffix, exists, debug, verbose) ==
    [input |-> "vmh" \o suffix, suffix |-> suffix, exists |-> exists,
     debug |-> debug, verbose |-> verbose]

\* the state main() starts in, whatever the inputs
Start ==
    /\ pc = "check"
    /\ stdout = <<>>
    /\ exitCode = -1
    /\ skipped = <<>>
    /\ vmh_df = [columns |-> <<>>, rows |-> <<>>]
    /\ nsxf_df = <<>>
    /\ nsxfint_df = [columns |-> <<>>, dtype |-> <<>>, rows |-> <<>>]
    /\ i = 1

\* one VM in a well-formed .tsv report, every catalog
InitResolve ==
    /\ args = Args(".tsv", TRUE, FALSE, FALSE)
    /\ \E c \in MaskCells :
          file = <<TabLine(<<"Name", "NsxFInt">>), TabLine(<<"vm1", c>>)>>
    /\ catalogCsv \in Catalogs
    /\ outFile = NoFile

\* every report of either accepted format, one catalog
InitLoad ==
    /\ \E suffix \in {".tsv", ".csv"} :
          /\ args = Args(suffix, TRUE, FALSE, FALSE)
          /\ file \in Reports(SepOf(suffix))
    /\ catalogCsv = DefaultCatalog
    /\ outFile = NoFile

\* every command line, one report and one catalog
InitLog ==
    /\ \E suffix \in {".tsv", ".csv", ".txt"}, exists, debug, verbose \in BOOLEAN :
          /\ args = Args(suffix, exists, debug, verbose)
          /\ file = IF exists
                    THEN <<Line(SepOf(suffix), <<"Name", "NsxFInt">>),
                           Line(SepOf(suffix), <<"vm1", ToStr(MaxMask)>>)>>
                    ELSE <<>>
    /\ catalogCsv = DefaultCatalog
    /\ outFile \in {NoFile, OldFile}

Init == Start /\ (InitResolve \/ InitLoad \/ InitLog)

Spec == Init /\ [][Next]_vars
---------------------------------------------------------------------------
(* Vocabulary of the properties. *)

\* the run has ended, one way or another
Terminated == pc \in {"done", "fatal", "crashed"}

\* the normalised usage mask of the r-th VM record
MaskOf(r) == vmh_df.rows[r]["NsxFInt"]

\* the cell of the r-th data row under the report's column col, as it
\* stands in the file
RawCell(r, col) ==
    LET kept == KeptLines(file, skipped)
        k == CHOOSE k \in DOMAIN kept[1].cells : Rename(kept[1].cells[k]) = col
    IN  kept[r + 1].cells[k]

\* the rank a feature contributes to a VM with this mask
Contribution(mask, f) ==
    IF BitAnd(mask, f.bit) > 0
    THEN CHOOSE k \in 0..4 : editions[k + 1] = f.edition
    ELSE 0

\* the highest rank the catalog's features contribute to a VM with this mask
MaxContribution(mask, catalog) ==
    SetMax({0} \cup {Contribution(mask, catalog[k]) : k \in DOMAIN catalog})

\* the feature names are pairwise distinct and none is the mask column's
DistinctNames(catalog) ==
    /\ NoDuplicates(FeatureNames(catalog))
    /\ "NsxFInt" \notin Range(FeatureNames(catalog))

\* the catalog in the order given by the permutation p of its indices
Permuted(catalog, p) == [k \in DOMAIN catalog |-> catalog[p[k]]]

\* two output files have the same columns, in whatever order, and agree on
\* every VM's edition and on every feature's cell
SameResult(a, b, names) ==
    /\ Range(a.columns) = Range(b.columns)
    /\ DOMAIN a.rows = DOMAIN b.rows
    /\ \A r \in DOMAIN a.rows :
          /\ a.rows[r]["NSX Edition"] = b.rows[r]["NSX Edition"]
          /\ \A n \in Range(names) : a.rows[r][n] = b.rows[r][n]

---------------------------------------------------------------------------
(* C1 *)

\* C1 (as stated): on a finished run, for every catalog, each VM's written
\* edition is the element of the edition list at the maximum rank contributed
\* by the catalog's features.
C1_EditionIsMaxRank ==
    pc = "done" =>
        \A r \in DOMAIN outFile.rows :
            outFile.rows[r]["NSX Edition"]
                = editions[MaxContribution(MaskOf(r), nsxf_df) + 1]

\* C1 (amended): the same, for catalogs whose feature names are pairwise
\* distinct and none of which is "NsxFInt".
C1_EditionIsMaxRankDistinct ==
    (pc = "done" /\ DistinctNames(nsxf_df)) =>
        \A r \in DOMAIN outFile.rows :
            outFile.rows[r]["NSX Edition"]
                = editions[MaxContribution(MaskOf(r), nsxf_df) + 1]

\* a finished run in which two features are active for a VM and the one
\* processed last has the lower rank
C1_Witness ==
    /\ pc = "done"
    /\ DistinctNames(nsxf_df)
    /\ Len(nsxf_df) = 2
    /\ \E r \in DOMAIN outFile.rows :
          /\ Contribution(MaskOf(r), nsxf_df[1]) > Contribution(MaskOf(r), nsxf_df[2])
          /\ Contribution(MaskOf(r), nsxf_df[2]) > 0

---------------------------------------------------------------------------
(* C2 *)

\* C2 (as stated): on a finished run, every catalog feature's output cell
\* is the marker "True" exactly when (mask AND bit) > 0, and blank otherwise.
C2_MarkerIffActive ==
    pc = "done" =>
        \A r \in DOMAIN outFile.rows : \A k \in DOMAIN nsxf_df :
            outFile.rows[r][nsxf_df[k].name]
                = IF BitAnd(MaskOf(r), nsxf_df[k].bit) > 0 THEN "True" ELSE ""

\* C2 (amended): the same, for catalogs whose feature names are pairwise
\* distinct and none of which is "NsxFInt".
C2_MarkerIffActiveDistinct ==
    (pc = "done" /\ DistinctNames(nsxf_df)) =>
        \A r \in DOMAIN outFile.rows : \A k \in DOMAIN nsxf_df :
            outFile.rows[r][nsxf_df[k].name]
                = IF BitAnd(MaskOf(r), nsxf_df[k].bit) > 0 THEN "True" ELSE ""

\* a finished run with a feature of several bits of which the VM has only
\* some, and a feature none of whose bits the VM has
C2_Witness ==
    /\ pc = "done"
    /\ DistinctNames(nsxf_df)
    /\ \E r \in DOMAIN outFile.rows : \E k, j \in DOMAIN nsxf_df :
          /\ BitAnd(MaskOf(r), nsxf_df[k].bit) \notin {0, nsxf_df[k].bit}
          /\ outFile.rows[r][nsxf_df[k].name] = "True"
          /\ BitAnd(MaskOf(r), nsxf_df[j].bit) = 0
          /\ outFile.rows[r][nsxf_df[j].name] = ""

---------------------------------------------------------------------------
(* C3 *)

\* C3: on a finished run with a non-empty catalog, a VM whose NsxFInt cell
\* is 0, missing or "-" has every feature cell blank and the empty edition.
C3_ZeroMaskNothingActive ==
    pc = "done" =>
        \A r \in DOMAIN outFile.rows :
            (RawCell(r, "NsxFInt") \in {"0", "", "-"} /\ nsxf_df # <<>>) =>
                /\ \A k \in DOMAIN nsxf_df : outFile.rows[r][nsxf_df[k].name] = ""
                /\ outFile.rows[r]["NSX Edition"] = ""

\* a finished run with a VM whose cell is the placeholder, and a feature
C3_Witness ==
    /\ pc = "done"
    /\ nsxf_df # <<>>
    /\ \E r \in DOMAIN outFile.rows :
          /\ RawCell(r, "NsxFInt") = "-"
          /\ outFile.rows[r]["NSX Edition"] = ""

---------------------------------------------------------------------------
(* C4 *)

\* C4: when the input path does not exist or its suffix is neither .csv nor
\* .tsv, the run, once past its first step, has printed one FATAL line
\* naming the path and nothing else, has exited with status 1, has read
\* neither the report nor the catalog, and has not written the output file.
C4_BadInputIsFatal ==
    (~args.exists \/ args.suffix \notin {".csv", ".tsv"}) =>
        /\ ~outFile.written
        /\ pc # "check" =>
              /\ pc = "fatal"
              /\ exitCode = 1
              /\ Len(stdout) = 1
              /\ stdout[1].tag = "FATAL"
              /\ stdout[1].path = args.input
              /\ skipped = <<>>
              /\ vmh_df.columns = <<>>
              /\ nsxf_df = <<>>

\* an existing .txt input, refused
C4_Witness ==
    /\ args.exists
    /\ args.suffix = ".txt"
    /\ pc = "fatal"
    /\ outFile.exists

---------------------------------------------------------------------------
(* C5 *)

\* C5: when a feature that survives the missing-field filter has an edition
\* outside the edition list, the run ends with a FATAL line, exit status 1
\* and no output file written.
C5_UnknownEditionIsFatal ==
    (/\ Terminated
     /\ \E k \in DOMAIN nsxf_df : nsxf_df[k].edition \notin Range(editions)) =>
        /\ pc = "fatal"
        /\ stdout # <<>>
        /\ stdout[Len(stdout)].tag = "FATAL"
        /\ exitCode = 1
        /\ ~outFile.written

---------------------------------------------------------------------------
(* C6 *)

---------------------------------------------------------------------------
(* C7 *)

\* the file's field delimiter
Delimiter == SepOf(args.suffix)

\* a delimiter count no other count is more frequent than, among the lines
ModalCount(lines) ==
    LET Freq(c) == Cardinality({k \in DOMAIN lines : DelimCount(lines[k], Delimiter) = c})
    IN  CHOOSE c \in {DelimCount(lines[k], Delimiter) : k \in DOMAIN lines} :
            \A k \in DOMAIN lines : Freq(DelimCount(lines[k], Delimiter)) <= Freq(c)

\* C7: once skip_rows() has run, the skipped lines are exactly those whose
\* count of the file's delimiter differs from the modal count; so a file all
\* of whose lines have the same, non-zero, delimiter count has none skipped
\* and all its data rows in the report table.
C7_SkipsNonModalLines ==
    (pc \notin {"check", "fatal", "read_report"} /\ file # <<>>) =>
        /\ Range(skipped) =
              {k - 1 : k \in {j \in DOMAIN file :
                    DelimCount(file[j], Delimiter) # ModalCount(file)}}
        /\ (\A k \in DOMAIN file : DelimCount(file[k], Delimiter) = 1) =>
              /\ skipped = <<>>
              /\ Len(vmh_df.rows) = Len(file) - 1

---------------------------------------------------------------------------
(* C8 *)

\* C8: every printed line carries the tag of the level it was logged at: a
\* debug-level message is printed only with the debug flag, as DEBUG, and a
\* verbose-level message only with the verbose flag, as VERBOSE; and a
\* FATAL line is the last one, the run having exited with status 1.
C8_LinesTaggedByLevel ==
    \A k \in DOMAIN stdout :
        /\ stdout[k].level = "debug" => (args.debug /\ stdout[k].tag = "DEBUG")
        /\ stdout[k].level = "verbose" => (args.verbose /\ stdout[k].tag = "VERBOSE")
        /\ stdout[k].tag = "FATAL" =>
              (k = Len(stdout) /\ pc = "fatal" /\ exitCode = 1)

---------------------------------------------------------------------------
(* C9 *)

\* C9 (as stated): on a finished run, resolving the same report against any
\* permutation of the catalog gives every VM the same edition and every
\* feature name the same cell.
C9_OrderIndependent ==
    pc = "done" =>
        \A p \in Permutations(DOMAIN nsxf_df) :
            SameResult(outFile, ToCsv(Resolve(vmh_df, Permuted(nsxf_df, p))),
                       FeatureNames(nsxf_df))

\* C9 (amended): the same, for catalogs whose feature names are pairwise
\* distinct and none of which is "NsxFInt".
C9_OrderIndependentDistinct ==
    (pc = "done" /\ DistinctNames(nsxf_df)) =>
        \A p \in Permutations(DOMAIN nsxf_df) :
            SameResult(outFile, ToCsv(Resolve(vmh_df, Permuted(nsxf_df, p))),
                       FeatureNames(nsxf_df))

\* a finished run with two features of different ranks, both active
C9_Witness ==
    /\ pc = "done"
    /\ DistinctNames(nsxf_df)
    /\ Len(nsxf_df) = 2
    /\ \E r \in DOMAIN outFile.rows :
          /\ Contribution(MaskOf(r), nsxf_df[1]) > 0
          /\ Contribution(MaskOf(r), nsxf_df[2]) > Contribution(MaskOf(r), nsxf_df[1])
          /\ outFile.rows[r]["NSX Edition"] = nsxf_df[2].edition

---------------------------------------------------------------------------
(* C10 *)

\* C10: a run on a report with one or more VM records and a catalog that is
\* empty after the rows with missing fields are dropped ends with exit
\* status 0 and an output without feature columns in which every VM's
\* edition is the empty one.
C10_EmptyCatalogSucceeds ==
    (Terminated /\ nsxf_df = <<>> /\ nsxfint_df.rows # <<>>) =>
        /\ pc = "done"
        /\ exitCode = 0
        /\ outFile.written
        /\ \A r \in DOMAIN outFile.rows : outFile.rows[r]["NSX Edition"] = ""
=============================================================================
